---- MODULE Spec2Model ----
(***************************************************************************)
(* Model of renantrendt/chat-yanomami:                                     *)
(*   - the two API handlers that run inference.py through                  *)
(*     child_process.exec (src/unnamed/part_000 and                        *)
(*     src/pages/api/inference.js),                                        *)
(*   - the Chat component (src/components/Chat.js).                        *)
(* Strings are sequences of one-character strings.  An optional JS value   *)
(* is a sequence of length at most 1: <<>> is undefined, <<v>> is v.       *)
(***************************************************************************)
EXTENDS Integers, Sequences, FiniteSets, TLC

\* ------------------------------------------------------------------ bounds
MaxLen == 3          \* longest query in a request body
MaxCtxLen == 1       \* longest context in a request body
MaxWrites == 2       \* chunks a child process writes before it ends
MaxRequests == 3     \* concurrent requests in the burst specification
Deadline == 2        \* the deadline (timeoutMs) of the claims, in ticks
MaxTime == Deadline + 1
PoolSize == MaxRequests - 1
MaxQueryLen == MaxLen - 1

\* ------------------------------------------------------------- characters
DQ == "\""
SEMI == ";"
BQ == "backtick"
SP == " "
Chars == {"a", SP, DQ, SEMI, BQ}

\* literal text of the command templates, one atom per word
PYTHON == "python"
SCRIPT == "/Users/renanserrano/CascadeProjects/mobilellm125m/MobileLLM/inference.py"
OPT_INPUT == "--input"
OPT_CONTEXT == "--context"
SUBST == "<output of substituted command>"

Undefined == <<>>
Some(v) == <<v>>

StrUpTo(S, n) == UNION {[1..k -> S] : k \in 0..n}

Queries == {Undefined} \cup {Some(s) : s \in StrUpTo(Chars, MaxLen)}
Contexts == {Undefined} \cup {Some(s) : s \in StrUpTo(Chars, MaxCtxLen)}

\* ------------------------------------------------------- String.replace
\* s.replace(/c/g, rep): every occurrence of the character c becomes rep
RECURSIVE ReplaceAll(_, _, _)
ReplaceAll(s, c, rep) ==
    IF s = <<>> THEN <<>>
    ELSE (IF Head(s) = c THEN rep ELSE <<Head(s)>>) \o ReplaceAll(Tail(s), c, rep)

\* the replacement text of both replace calls: in a JS string literal a
\* backslash before a double quote is dropped, so the replacement is the
\* one-character string holding a double quote
EscapeReplacement == <<DQ>>

\* template literal interpolation of an optional string
Interpolate(opt) == IF opt = Undefined THEN <<"undefined">> ELSE opt[1]

\* JS truthiness of an optional string
Truthy(opt) == opt /= Undefined /\ opt[1] /= <<>>

\* part_000 lines 7-10
CommandWithContext(query, context) ==
    LET escapedQuery == ReplaceAll(query[1], DQ, EscapeReplacement)
        escapedContext == IF Truthy(context)
                          THEN ReplaceAll(context[1], DQ, EscapeReplacement)
                          ELSE <<>>
    IN  <<PYTHON, SP, SCRIPT, SP, OPT_INPUT, SP, DQ>> \o escapedQuery \o <<DQ, SP>>
        \o (IF Truthy(context)
            THEN <<OPT_CONTEXT, SP, DQ>> \o escapedContext \o <<DQ>>
            ELSE <<>>)

\* inference.js line 6
CommandSimple(query) ==
    <<PYTHON, SP, SCRIPT, SP, DQ>> \o Interpolate(query) \o <<DQ>>

\* ------------------------------------------------------------ /bin/sh -c
\* exec hands the command string to a shell.  ShScan reads it the way sh
\* does: blanks split words, a semicolon ends a command, double quotes
\* quote blanks and semicolons, and text between backticks is run as a
\* command of its own (inside double quotes too).
\* st = [mode, word, inWord, argv, cmds, substs, inner]
ShStart == [mode |-> "plain", back |-> "plain", word |-> <<>>, inWord |-> FALSE,
            argv |-> <<>>, cmds |-> <<>>, substs |-> <<>>, inner |-> <<>>]

EndWord(st) ==
    IF st.inWord
    THEN [st EXCEPT !.argv = Append(st.argv, st.word), !.word = <<>>, !.inWord = FALSE]
    ELSE st

EndCommand(st) ==
    LET s1 == EndWord(st)
    IN  IF s1.argv = <<>> THEN s1
        ELSE [s1 EXCEPT !.cmds = Append(s1.cmds, s1.argv), !.argv = <<>>]

ShStep(st, c) ==
    IF st.mode = "bq"
    THEN IF c = BQ
         THEN [st EXCEPT !.mode = st.back,
                         !.substs = Append(st.substs, st.inner),
                         !.inner = <<>>,
                         !.word = Append(st.word, SUBST),
                         !.inWord = TRUE]
         ELSE [st EXCEPT !.inner = Append(st.inner, c)]
    ELSE IF c = BQ
    THEN [st EXCEPT !.mode = "bq", !.back = st.mode, !.inWord = TRUE]
    ELSE IF st.mode = "dq"
    THEN IF c = DQ
         THEN [st EXCEPT !.mode = "plain"]
         ELSE [st EXCEPT !.word = Append(st.word, c)]
    ELSE IF c = DQ THEN [st EXCEPT !.mode = "dq", !.inWord = TRUE]
    ELSE IF c = SP THEN EndWord(st)
    ELSE IF c = SEMI THEN EndCommand(st)
    ELSE [st EXCEPT !.word = Append(st.word, c), !.inWord = TRUE]

RECURSIVE ShScan(_, _)
ShScan(st, s) == IF s = <<>> THEN st ELSE ShScan(ShStep(st, Head(s)), Tail(s))

\* what the shell does with the command string: ok = FALSE is a syntax
\* error (unterminated quote), nothing runs and sh exits with status 2
ShParse(command) ==
    LET fin == ShScan(ShStart, command)
        done == EndCommand(fin)
    IN  [ok |-> fin.mode = "plain",
         cmds |-> IF fin.mode = "plain" THEN done.cmds ELSE <<>>,
         substs |-> IF fin.mode = "plain" THEN done.substs ELSE <<>>]

\* ------------------------------------------------------ state variables
VARIABLES
    hpc,        \* per request: position of the API handler
    body,       \* per request: req.body and the handler variant serving it
    command,    \* per request: the string handed to exec, <<>> before exec
    child,      \* per request: the child process started by exec
    captured,   \* per request: exec's stdout and stderr buffers
    responses,  \* per request: responses sent with res.status(..).json(..)
    input,      \* Chat: useState('') input
    messages,   \* Chat: useState([]) messages
    loading,    \* Chat: useState(false) loading
    context,    \* Chat: useState([]) context
    sends       \* Chat: handleSend invocations, in the order they started

hvars == <<hpc, body, command, child, captured, responses>>
cvars == <<input, messages, loading, context, sends>>
vars == <<hpc, body, command, child, captured, responses,
          input, messages, loading, context, sends>>

Reqs == 1..MaxRequests
Variants == {"context", "simple"}
Bodies == [variant : Variants, query : Queries, context : Contexts]
Data == {"x", "y"}
STDOUT == 1
STDERR == 2
ExitCodes == {0, 1, 2}
SH_SYNTAX_ERROR == 2
Endings == [kind : {"exit"}, code : ExitCodes]
           \cup {[kind |-> "signal", code |-> -1], [kind |-> "spawn", code |-> -1]}

NoChild == [st |-> "none", written |-> <<>>, elapsed |-> 0,
            ending |-> [kind |-> "none", code |-> -1]]
NoBody == [variant |-> "none", query |-> Undefined, context |-> Undefined]
NoCapture == [stdout |-> <<>>, stderr |-> <<>>]

\* ------------------------------------------- child_process.exec callback
\* error is null exactly when the child exited with status 0
ExecError(ending) ==
    IF ending.kind = "exit" /\ ending.code = 0 THEN Undefined ELSE Some(ending)

\* a JSON body is the set of its <<field, value>> pairs
ERROR_MESSAGE == <<"Error running inference">>

\* variant of the callback that leaves out .status(500)
HandlerResponse_noStatus(error, stdout, stderr) ==
    IF error /= Undefined
    THEN [status |-> 200, json |-> {<<"message", ERROR_MESSAGE>>, <<"logs", stderr>>}]
    ELSE [status |-> 200, json |-> {<<"output", stdout>>, <<"logs", stderr>>}]

\* variant of the callback that answers with standard error when standard
\* output is empty
HandlerResponse_fallback(error, stdout, stderr) ==
    IF error /= Undefined
    THEN [status |-> 500, json |-> {<<"message", ERROR_MESSAGE>>, <<"logs", stderr>>}]
    ELSE [status |-> 200,
          json |-> {<<"output", IF stdout = <<>> THEN stderr ELSE stdout>>,
                    <<"logs", stderr>>}]

\* the callback of both handlers: part_000 lines 12-24, inference.js 6-18
HandlerResponse(error, stdout, stderr) ==
    IF error /= Undefined
    THEN [status |-> 500, json |-> {<<"message", ERROR_MESSAGE>>, <<"logs", stderr>>}]
    ELSE [status |-> 200, json |-> {<<"output", stdout>>, <<"logs", stderr>>}]

HasField(json, f) == \E p \in json : p[1] = f
Field(json, f) == (CHOOSE p \in json : p[1] = f)[2]

\* ------------------------------------------------------------ API handlers
\* exec(command, callback): the shell is being spawned, nothing captured yet
Exec(r, b, cmd) ==
    /\ hpc' = [hpc EXCEPT ![r] = "waiting"]
    /\ body' = [body EXCEPT ![r] = b]
    /\ command' = [command EXCEPT ![r] = cmd]
    /\ child' = [child EXCEPT ![r] = [NoChild EXCEPT !.st = "spawning"]]
    /\ captured' = [captured EXCEPT ![r] = NoCapture]
    /\ UNCHANGED responses

\* part_000: query.replace throws a TypeError when the body has no query
HandlerContext(r, b) ==
    /\ hpc[r] = "idle"
    /\ b.variant = "context"
    /\ IF b.query = Undefined
       THEN /\ hpc' = [hpc EXCEPT ![r] = "threw"]
            /\ body' = [body EXCEPT ![r] = b]
            /\ UNCHANGED <<command, child, captured, responses>>
       ELSE Exec(r, b, CommandWithContext(b.query, b.context))
    /\ UNCHANGED cvars

\* inference.js: only query is read from the body
HandlerSimple(r, b) ==
    /\ hpc[r] = "idle"
    /\ b.variant = "simple"
    /\ Exec(r, b, CommandSimple(b.query))
    /\ UNCHANGED cvars

\* --------------------------------------------------------- child process
SpawnOk(r) ==
    /\ child[r].st = "spawning"
    /\ child' = [child EXCEPT ![r].st = "running"]
    /\ UNCHANGED <<hpc, body, command, captured, responses, cvars>>

SpawnFail(r) ==
    /\ child[r].st = "spawning"
    /\ child' = [child EXCEPT ![r].st = "ended",
                              ![r].ending = [kind |-> "spawn", code |-> -1]]
    /\ UNCHANGED <<hpc, body, command, captured, responses, cvars>>

\* the child writes a chunk to one of its two streams; exec appends it to
\* the buffer of that stream.  After a shell syntax error only sh itself
\* writes, to standard error.
ChildWrite(r, fd, d) ==
    /\ child[r].st = "running"
    /\ Len(child[r].written) < MaxWrites
    /\ ShParse(command[r]).ok \/ fd = STDERR
    /\ child' = [child EXCEPT ![r].written = Append(@, <<fd, d>>)]
    /\ captured' = [captured EXCEPT
                      ![r].stdout = IF fd = STDOUT THEN Append(@, d) ELSE @,
                      ![r].stderr = IF fd = STDERR THEN Append(@, d) ELSE @]
    /\ UNCHANGED <<hpc, body, command, responses, cvars>>

\* exec is called without options: no timeout, nothing ends the child but
\* the child itself or a signal from outside
Tick(r) ==
    /\ child[r].st = "running"
    /\ child[r].elapsed < MaxTime
    /\ child' = [child EXCEPT ![r].elapsed = @ + 1]
    /\ UNCHANGED <<hpc, body, command, captured, responses, cvars>>

ChildExit(r, code) ==
    /\ child[r].st = "running"
    /\ ShParse(command[r]).ok \/ code = SH_SYNTAX_ERROR
    /\ child' = [child EXCEPT ![r].st = "ended",
                              ![r].ending = [kind |-> "exit", code |-> code]]
    /\ UNCHANGED <<hpc, body, command, captured, responses, cvars>>

ChildKilled(r) ==
    /\ child[r].st = "running"
    /\ child' = [child EXCEPT ![r].st = "ended",
                              ![r].ending = [kind |-> "signal", code |-> -1]]
    /\ UNCHANGED <<hpc, body, command, captured, responses, cvars>>

\* exec calls back once the child has ended
Callback(r) ==
    /\ hpc[r] = "waiting"
    /\ child[r].st = "ended"
    /\ responses' = [responses EXCEPT ![r] =
          Append(@, HandlerResponse(ExecError(child[r].ending),
                                    captured[r].stdout, captured[r].stderr))]
    /\ hpc' = [hpc EXCEPT ![r] = "responded"]
    /\ UNCHANGED <<body, command, child, captured, cvars>>

\* ------------------------------------------------------------------ Chat
MaxSends == 2        \* handleSend invocations that reach the search
MaxResults == 4      \* longest result list the vector store returns

K == 3
\* texts typed into the input box: empty, blank, plain, padded
Inputs == {<<>>, <<SP>>, <<"a">>, <<SP, "a">>}

\* String.prototype.trim
RECURSIVE TrimStart(_)
TrimStart(s) == IF s /= <<>> /\ Head(s) = SP THEN TrimStart(Tail(s)) ELSE s
RECURSIVE TrimEnd(_)
TrimEnd(s) ==
    IF s /= <<>> /\ s[Len(s)] = SP THEN TrimEnd(SubSeq(s, 1, Len(s) - 1)) ELSE s
Trim(s) == TrimEnd(TrimStart(s))

\* entries as the vector store sends them: entry n is at distance n, and
\* every other entry comes without examples
RawEntry(n) ==
    [headword |-> n, definition |-> n,
     examples |-> IF n % 2 = 0 THEN Undefined
                  ELSE Some(<<[original |-> n, translation |-> n]>>),
     distance |-> n]
\* result lists: the n nearest entries, nearest first or farthest first
Ranked(n) == [i \in 1..n |-> RawEntry(i)]
Reversed(n) == [i \in 1..n |-> RawEntry(n + 1 - i)]
ResultLists == {Ranked(n) : n \in 0..MaxResults} \cup {Reversed(n) : n \in 0..MaxResults}

\* what fetch and response.json() can give: a rejected fetch, a body that
\* is not JSON, a JSON object without a results field, or one with it
HTTP_OK == 200
HTTP_UNAVAILABLE == 503
StoreResponses ==
    {[kind |-> "transport", status |-> 0, results |-> <<>>]}
    \cup [kind : {"notjson", "noresults"}, status : {HTTP_OK, HTTP_UNAVAILABLE},
          results : {<<>>}]
    \cup [kind : {"results"}, status : {HTTP_OK, HTTP_UNAVAILABLE}, results : ResultLists]
NoResponse == [kind |-> "none", status |-> 0, results |-> <<>>]

\* searchVectorStore, lines 9-22: the value it resolves to, an optional list
SearchVectorStore(resp) ==
    CASE resp.kind = "transport" -> Some(<<>>)
      [] resp.kind = "notjson"   -> Some(<<>>)
      [] resp.kind = "noresults" -> Undefined
      [] OTHER                   -> Some(resp.results)

\* lines 33-38
FormatResult(result) ==
    [headword |-> result.headword,
     definition |-> result.definition,
     examples |-> IF result.examples = Undefined THEN Some(<<>>) ELSE result.examples,
     distance |-> result.distance]

FormatResults(list) == [i \in 1..Len(list) |-> FormatResult(list[i])]

\* variant of the button that stays enabled while a send is in flight
ButtonDisabled_whileLoading == Trim(input) = <<>>

\* lines 107 and 112
InputDisabled == loading
ButtonDisabled == loading \/ Trim(input) = <<>>

\* line 104
OnChange(v) ==
    /\ ~InputDisabled
    /\ input' = v
    /\ UNCHANGED <<messages, loading, context, sends, hvars>>

\* handleSend up to its await, lines 24-30; the render that follows
\* setLoading(true) disables the input and the button
HandleSendStart ==
    IF Trim(input) = <<>>
    THEN UNCHANGED vars
    ELSE /\ Len(sends) < MaxSends
         /\ loading' = TRUE
         /\ sends' = Append(sends, [pc |-> "awaiting",
                                    input |-> input,
                                    messages |-> messages,
                                    request |-> [query |-> input, k |-> K],
                                    response |-> NoResponse])
         /\ UNCHANGED <<input, messages, context, hvars>>

\* line 111
OnClick ==
    /\ ~ButtonDisabled
    /\ HandleSendStart

\* handleKeyPress, lines 50-55
HandleKeyPress(key, shiftKey) ==
    /\ ~InputDisabled
    /\ IF key = "Enter" /\ ~shiftKey THEN HandleSendStart ELSE UNCHANGED vars

\* handleSend after the await, lines 30-47, with the input and messages of
\* the render the call was made in
HandleSendResume(i, resp) ==
    /\ i \in 1..Len(sends)
    /\ sends[i].pc = "awaiting"
    /\ LET searchResults == SearchVectorStore(resp)
       IN  IF searchResults = Undefined
           THEN /\ sends' = [sends EXCEPT ![i].pc = "aborted", ![i].response = resp]
                /\ UNCHANGED <<input, messages, loading>>
           ELSE /\ messages' = Append(sends[i].messages,
                                      [user |-> sends[i].input,
                                       results |-> FormatResults(searchResults[1])])
                /\ input' = <<>>
                /\ loading' = FALSE
                /\ sends' = [sends EXCEPT ![i].pc = "done", ![i].response = resp]
    /\ UNCHANGED <<context, hvars>>

\* ---------------------------------------------------------- specifications
Init ==
    /\ hpc = [r \in Reqs |-> "idle"]
    /\ body = [r \in Reqs |-> NoBody]
    /\ command = [r \in Reqs |-> <<>>]
    /\ child = [r \in Reqs |-> NoChild]
    /\ captured = [r \in Reqs |-> NoCapture]
    /\ responses = [r \in Reqs |-> <<>>]
    /\ input = <<>>
    /\ messages = <<>>
    /\ loading = FALSE
    /\ context = <<>>
    /\ sends = <<>>

\* one request through either handler, from receipt to response
First == {r \in Reqs : \A q \in Reqs : r <= q}
LifeBodies ==
    [variant : Variants,
     query : {Undefined, Some(<<>>), Some(<<"a">>), Some(<<DQ>>)},
     context : {Undefined, Some(<<"a">>)}]

Next ==
    \E r \in First :
        \/ \E b \in LifeBodies : HandlerContext(r, b)
        \/ \E b \in LifeBodies : HandlerSimple(r, b)
        \/ SpawnOk(r)
        \/ SpawnFail(r)
        \/ \E fd \in {STDOUT, STDERR}, d \in Data : ChildWrite(r, fd, d)
        \/ Tick(r)
        \/ \E code \in ExitCodes : ChildExit(r, code)
        \/ ChildKilled(r)
        \/ Callback(r)

Spec == Init /\ [][Next]_vars

\* the synchronous part of either handler on every body: what exec is given
NextLaunch ==
    \E r \in First :
        \/ \E b \in Bodies : HandlerContext(r, b)
        \/ \E b \in Bodies : HandlerSimple(r, b)

SpecLaunch == Init /\ [][NextLaunch]_vars

\* a burst of requests with a well-formed body, children that write nothing
BurstBodies == [variant : Variants, query : {Some(<<"a">>)}, context : {Undefined}]

NextBurst ==
    \E r \in Reqs :
        \/ \E b \in BurstBodies : HandlerContext(r, b)
        \/ \E b \in BurstBodies : HandlerSimple(r, b)
        \/ SpawnOk(r)
        \/ \E code \in ExitCodes : ChildExit(r, code)
        \/ Callback(r)

SpecBurst == Init /\ [][NextBurst]_vars

\* the Chat component alone
NextChat ==
    \/ \E v \in Inputs : OnChange(v)
    \/ OnClick
    \/ \E key \in {"Enter", "a"}, shiftKey \in BOOLEAN : HandleKeyPress(key, shiftKey)
    \/ \E i \in 1..MaxSends, resp \in StoreResponses : HandleSendResume(i, resp)

SpecChat == Init /\ [][NextChat]_vars

\* ------------------------------------------------------------------ claims
Handled(r) == body[r].variant /= "none"
Launched(r) == command[r] /= <<>>
TheResponse(r) == responses[r][1]
Fields(json) == {p[1] : p \in json}
Is2xx(status) == status \in 200..299

\* the argument vector the inference process is meant to get: the request's
\* query and context as whole words
ExpectedArgv(b) ==
    IF b.variant = "context"
    THEN <<<<PYTHON>>, <<SCRIPT>>, <<OPT_INPUT>>, b.query[1]>>
         \o (IF Truthy(b.context) THEN <<<<OPT_CONTEXT>>, b.context[1]>> ELSE <<>>)
    ELSE <<<<PYTHON>>, <<SCRIPT>>, Interpolate(b.query)>>

\* C1: whatever the query and context contain, the shell runs exactly one
\* command, substitutes nothing, and that command's argument vector holds
\* the query and the context unchanged, each as one argument.
C1_OpaqueArguments ==
    \A r \in Reqs :
        Launched(r) =>
            LET p == ShParse(command[r])
            IN  /\ p.ok
                /\ p.substs = <<>>
                /\ p.cmds = <<ExpectedArgv(body[r])>>

\* C2: a child that is still running when the deadline has passed is killed
\* and the request is answered with a failure; no child runs past the
\* deadline and no request waits on one.
C2_TimeoutEnforced ==
    \A r \in Reqs :
        child[r].elapsed > Deadline =>
            /\ child[r].st = "ended"
            /\ child[r].ending.kind = "signal"
            /\ hpc[r] = "responded"
            /\ ~Is2xx(TheResponse(r).status)

\* C3: the response follows the way the child ended: exit status 0 gives
\* 200 with exactly {output, logs}; a non-zero status or a failed spawn
\* gives a non-2xx status with exactly {message, logs}, logs being the
\* captured standard error.
C3_OutcomeByExit ==
    \A r \in Reqs :
        hpc[r] = "responded" =>
            LET resp == TheResponse(r)
                e == child[r].ending
            IN  /\ (e.kind = "exit" /\ e.code = 0) =>
                      /\ resp.status = 200
                      /\ Fields(resp.json) = {"output", "logs"}
                      /\ Field(resp.json, "output") = captured[r].stdout
                      /\ Field(resp.json, "logs") = captured[r].stderr
                /\ ((e.kind = "exit" /\ e.code /= 0) \/ e.kind = "spawn") =>
                      /\ ~Is2xx(resp.status)
                      /\ Fields(resp.json) = {"message", "logs"}
                      /\ Field(resp.json, "logs") = captured[r].stderr

C3_Witness ==
    \E r \in Reqs :
        /\ hpc[r] = "responded"
        /\ child[r].ending = [kind |-> "exit", code |-> 1]
        /\ captured[r].stderr /= <<>>
        /\ captured[r].stdout /= <<>>

InvalidQuery(q) ==
    \/ q = Undefined
    \/ Trim(q[1]) = <<>>
    \/ Len(q[1]) > MaxQueryLen

\* C4: a request whose query is missing, blank after trimming or longer
\* than the maximum never reaches exec (no child is started for it), and
\* no response to it is a success.
C4_InvalidQueryRejected ==
    \A r \in Reqs :
        (Handled(r) /\ InvalidQuery(body[r].query)) =>
            /\ ~Launched(r)
            /\ child[r].st = "none"
            /\ \A k \in 1..Len(responses[r]) : ~Is2xx(responses[r][k].status)

\* C7: at no time are more than PoolSize children running.
C7_PoolBound ==
    Cardinality({r \in Reqs : child[r].st = "running"}) <= PoolSize

\* what the child wrote to one of its streams, in order
RECURSIVE WrittenTo(_, _)
WrittenTo(written, fd) ==
    IF written = <<>> THEN <<>>
    ELSE (IF Head(written)[1] = fd THEN <<Head(written)[2]>> ELSE <<>>)
         \o WrittenTo(Tail(written), fd)

\* C8: in every response, logs is what the child wrote to standard error,
\* output (when present) is what it wrote to standard output, and a failure
\* has no output.
C8_OutputOnlyStdout ==
    \A r \in Reqs :
        hpc[r] = "responded" =>
            LET resp == TheResponse(r)
            IN  /\ Field(resp.json, "logs") = WrittenTo(child[r].written, STDERR)
                /\ HasField(resp.json, "output") =>
                      Field(resp.json, "output") = WrittenTo(child[r].written, STDOUT)
                /\ ~Is2xx(resp.status) => ~HasField(resp.json, "output")

C8_Witness ==
    \E r \in Reqs :
        /\ hpc[r] = "responded"
        /\ TheResponse(r).status = 200
        /\ WrittenTo(child[r].written, STDOUT) = <<>>
        /\ WrittenTo(child[r].written, STDERR) /= <<>>

\* C9: once the handler is through with a request (it has responded, or it
\* has returned with no callback pending) exactly one response was sent,
\* after the child ended, and exec was called at most once.
C9_ExactlyOneResponse ==
    \A r \in Reqs :
        /\ Len(responses[r]) <= 1
        /\ responses[r] /= <<>> => child[r].st = "ended"
        /\ hpc[r] \in {"responded", "threw"} => Len(responses[r]) = 1

\* the message a finished send has put into messages
MessageOf(i) == messages[Len(sends[i].messages) + 1]

RetrievalFailure(resp) ==
    \/ resp.kind = "transport"
    \/ resp.kind \in {"notjson", "noresults"}
    \/ resp.kind /= "none" /\ ~Is2xx(resp.status)

\* C5: a send whose search met a transport failure, a non-2xx status or a
\* malformed payload still finishes: its message is in messages with an
\* empty result list, and if it is the latest send, loading is cleared.
C5_DegradeToEmpty ==
    \A i \in 1..Len(sends) :
        (sends[i].pc /= "awaiting" /\ RetrievalFailure(sends[i].response)) =>
            /\ sends[i].pc = "done"
            /\ Len(messages) > Len(sends[i].messages)
            /\ MessageOf(i).user = sends[i].input
            /\ MessageOf(i).results = <<>>
            /\ i = Len(sends) => ~loading

Take(list, n) == SubSeq(list, 1, IF Len(list) < n THEN Len(list) ELSE n)

\* a kept entry carries the fields of the entry returned; an entry returned
\* without examples is kept with none
SameEntry(kept, raw) ==
    /\ kept.headword = raw.headword
    /\ kept.definition = raw.definition
    /\ kept.distance = raw.distance
    /\ kept.examples = (IF raw.examples = Undefined THEN Some(<<>>) ELSE raw.examples)

\* C6: the entries kept for a send are the first K of the list the vector
\* store returned, in that order, with their fields unchanged.
C6_FirstK ==
    \A i \in 1..Len(sends) :
        (sends[i].pc = "done" /\ sends[i].response.kind = "results") =>
            LET kept == MessageOf(i).results
                first == Take(sends[i].response.results, K)
            IN  /\ Len(kept) <= K
                /\ Len(kept) = Len(first)
                /\ \A j \in 1..Len(kept) : SameEntry(kept[j], first[j])

\* C10: a step never removes, overwrites or reorders a message, and the
\* step in which a send finishes appends exactly one message, holding the
\* text of that send and the formatted results of its search.
C10_Step ==
    /\ Len(messages') >= Len(messages)
    /\ SubSeq(messages', 1, Len(messages)) = messages
    /\ Len(sends') >= Len(sends)
    /\ \A i \in 1..Len(sends) :
          IF sends[i].pc = "awaiting" /\ sends'[i].pc = "done"
          THEN /\ Len(messages') = Len(messages) + 1
               /\ messages'[Len(messages')].user = sends[i].input
               /\ messages'[Len(messages')].results =
                     FormatResults(SearchVectorStore(sends'[i].response)[1])
          ELSE TRUE
    /\ (\A i \in 1..Len(sends) : sends'[i].pc = sends[i].pc) => messages' = messages

C10_AppendOnly == [][C10_Step]_vars

C10_Witness ==
    /\ Len(sends) = 2
    /\ \A i \in 1..Len(sends) : sends[i].pc = "done"
    /\ Len(messages) = 2
    /\ messages[1].results /= messages[2].results

====
